---- MODULE Spec2Model ----
(***************************************************************************)
(* Model of the privacy-enforcement core of pasteguard:                    *)
(*   - the conflict resolver (resolveConflicts, resolveConflictsSimple),   *)
(*   - the routing decision (decideRoute),                                 *)
(*   - the SSE unmasking stream (createUnmaskingStream).                   *)
(* The module holds six specifications: SpecResolve and SpecResolveTypes   *)
(* (the resolver on two and on three entity types), SpecRoute, Spec (the   *)
(* stream fed with whole lines), SpecBytes (the stream fed with chunks cut *)
(* anywhere) and SpecLive (the stream under fair scheduling).  Each leaves *)
(* the variables of the other parts at rest.                               *)
(***************************************************************************)
EXTENDS Integers, Sequences, FiniteSets, TLC

VARIABLES
    \* ---- conflict resolver ----
    entities,        \* the input sequence handed to the resolvers
    afterResolve,    \* resolveConflicts(entities)
    afterResolve2,   \* resolveConflicts(resolveConflicts(entities))
    afterSimple,     \* resolveConflictsSimple(entities)
    argAfter,        \* contents of the caller's array after each resolver call
    aliased,         \* whether each resolver returned the caller's own array
    rpc,             \* "input" | "resolved" | "idle"
    \* ---- routing decision ----
    piiResult, routing, secretsResult, secretsResult2, secretsAction,
    decision,        \* decideRoute(piiResult, routing, secretsResult, secretsAction)
    decision2,       \* the same call with secretsResult2
    decisionPii,     \* decideRoute(piiResult, routing)
    dpc,             \* "input" | "decided" | "idle"
    \* ---- unmasking stream ----
    sent,            \* every byte the upstream source will deliver
    pos,             \* number of bytes of `sent` already read from the source
    splits,          \* chunks so far that ended in the middle of a line
    havePii,         \* piiContext was given
    haveSecrets,     \* secretsContext was given
    piiBuffer, secretsBuffer,
    pc,              \* start(): "reading" | "exitClose" | "exitError" | "exitThrow" | "idle"
    readerLocked,    \* source.getReader() holds the lock on the source
    failed,          \* a read of the source was rejected
    outState,        \* output stream: "readable" | "closed" | "errored"
    closeRequested,  \* controller.close() was accepted
    storedError,     \* the error the output stream carries
    queue,           \* chunks enqueued and not yet taken by the consumer
    emitted,         \* every chunk controller.enqueue accepted, in order
    cancelled        \* the consumer cancelled the output stream

resolveVars == <<entities, afterResolve, afterResolve2, afterSimple, argAfter, aliased,
                 rpc>>
routeVars == <<piiResult, routing, secretsResult, secretsResult2, secretsAction,
               decision, decision2, decisionPii, dpc>>
streamVars == <<sent, pos, splits, havePii, haveSecrets, piiBuffer, secretsBuffer, pc,
                readerLocked, failed, outState, closeRequested, storedError, queue,
                emitted, cancelled>>
vars == <<resolveVars, routeVars, streamVars>>

\* ---------------------------------------------------------------------------
\* Bounds
\* ---------------------------------------------------------------------------
MaxEntities == 3       \* longest resolver input
MaxNewEntities == 3    \* longest piiResult.newEntities
MaxMatches == 1        \* longest secretsResult.matches
MaxLines == 2          \* SSE lines in the upstream stream
MaxContent == 1        \* characters of delta.content in one event
MaxSplits == 1         \* chunk boundaries that fall inside a line

Offsets == 0..3        \* text offsets of the spans
Scores == {1, 2}       \* detector confidence levels
EntityTypes == {"PERSON", "LOCATION"}
SecretTypes == {"API_KEY_AWS", "JWT_TOKEN"}
Providers == {"upstream", "local"}

Min(a, b) == IF a <= b THEN a ELSE b
Max(a, b) == IF a >= b THEN a ELSE b

\* All sequences over S of length 0..n
SeqsUpTo(S, n) == UNION {[1..k -> S] : k \in 0..n}

\* ===========================================================================
\* Conflict resolver
\* ===========================================================================
EntityWithScore ==
    {e \in [start : Offsets, end : Offsets, score : Scores,
            entity_type : EntityTypes] : e.start < e.end}

overlaps(a, b) == a.start < b.end /\ b.start < a.end

isContainedIn(a, b) == b.start <= a.start /\ b.end >= a.end

\* Array.prototype.sort is stable: an element is inserted behind every element
\* that does not compare after it.  c(a, b) is given as the function c[a, b].
RECURSIVE StableSort(_, _)
StableSort(s, c) ==
    IF s = <<>> THEN <<>>
    ELSE LET front == StableSort(SubSeq(s, 1, Len(s) - 1), c)
             x == s[Len(s)]
             after == {i \in 1..Len(front) : c[front[i], x] > 0}
             at == IF after = {} THEN Len(front) + 1
                   ELSE CHOOSE i \in after : \A j \in after : i <= j
         IN SubSeq(front, 1, at - 1) \o <<x>> \o SubSeq(front, at, Len(front))

\* groupBy: a Map keeps its keys in insertion order (first occurrence)
RECURSIVE Distinct(_)
Distinct(s) ==
    IF s = <<>> THEN <<>>
    ELSE LET front == Distinct(SubSeq(s, 1, Len(s) - 1))
             x == s[Len(s)]
         IN IF \E i \in 1..Len(front) : front[i] = x THEN front
            ELSE Append(front, x)

TypeOf(e) == e.entity_type
groupKeys(items) == Distinct([i \in 1..Len(items) |-> TypeOf(items[i])])
groupOf(items, key) == SelectSeq(items, LAMBDA e : TypeOf(e) = key)

\* Variant of the merge callback that keeps the score of the span merged into
mergeEntityFirstScore(a, b) ==
    [a EXCEPT !.start = Min(a.start, b.start),
              !.end = Max(a.end, b.end),
              !.score = a.score]

mergeEntity(a, b) ==
    [a EXCEPT !.start = Min(a.start, b.start),
              !.end = Max(a.end, b.end),
              !.score = Max(a.score, b.score)]

CmpStart(a, b) == a.start - b.start
CmpStartOn(s) ==
    LET E == {s[i] : i \in 1..Len(s)} IN [a \in E, b \in E |-> CmpStart(a, b)]

RECURSIVE mergeScan(_, _, _)
mergeScan(sorted, i, result) ==
    IF i > Len(sorted) THEN result
    ELSE LET current == sorted[i]
             last == result[Len(result)]
         IN IF overlaps(current, last)
            THEN mergeScan(sorted, i + 1,
                           [result EXCEPT ![Len(result)] = mergeEntity(last, current)])
            ELSE mergeScan(sorted, i + 1, Append(result, current))

\* Variant of mergeOverlapping that scans the input in the order given
mergeOverlappingUnsorted(intervals) ==
    IF Len(intervals) <= 1 THEN intervals
    ELSE mergeScan(intervals, 2, <<intervals[1]>>)

mergeOverlapping(intervals) ==
    IF Len(intervals) <= 1 THEN intervals
    ELSE LET sorted == StableSort(intervals, CmpStartOn(intervals))
         IN mergeScan(sorted, 2, <<sorted[1]>>)

\* Variant of the phase 2 comparator that puts the lower score first on a tie
CmpConflictLowFirst(a, b) ==
    IF a.start # b.start THEN a.start - b.start
    ELSE IF a.end # b.end THEN a.end - b.end
    ELSE a.score - b.score

CmpConflict(a, b) ==
    IF a.start # b.start THEN a.start - b.start
    ELSE IF a.end # b.end THEN a.end - b.end
    ELSE b.score - a.score
CmpConflictOn(s) ==
    LET E == {s[i] : i \in 1..Len(s)} IN [a \in E, b \in E |-> CmpConflict(a, b)]

\* Variant of the phase 2 test that drops a span overlapping a kept span
hasConflictOnOverlap(entity, result) ==
    \E k \in 1..Len(result) : overlaps(entity, result[k])

hasConflict(entity, result) ==
    \E k \in 1..Len(result) :
        \/ (entity.start = result[k].start /\ entity.end = result[k].end)
        \/ isContainedIn(entity, result[k])

RECURSIVE removeScan(_, _, _)
removeScan(sorted, i, result) ==
    IF i > Len(sorted) THEN result
    ELSE IF ~hasConflict(sorted[i], result)
         THEN removeScan(sorted, i + 1, Append(result, sorted[i]))
         ELSE removeScan(sorted, i + 1, result)

removeConflicting(ents) ==
    IF Len(ents) <= 1 THEN ents
    ELSE removeScan(StableSort(ents, CmpConflictOn(ents)), 1, <<>>)

RECURSIVE mergeGroups(_, _, _)
mergeGroups(ents, keys, afterMerge) ==
    IF keys = <<>> THEN afterMerge
    ELSE mergeGroups(ents, Tail(keys),
                     afterMerge \o mergeOverlapping(groupOf(ents, Head(keys))))

resolveConflicts(ents) ==
    IF Len(ents) <= 1 THEN ents
    ELSE removeConflicting(mergeGroups(ents, groupKeys(ents), <<>>))

\* The input of phase 2: afterMerge in resolveConflicts
afterMergeOf(ents) == mergeGroups(ents, groupKeys(ents), <<>>)

CmpSimple(a, b) ==
    IF a.start # b.start THEN a.start - b.start
    ELSE (b.end - b.start) - (a.end - a.start)
CmpSimpleOn(s) ==
    LET E == {s[i] : i \in 1..Len(s)} IN [a \in E, b \in E |-> CmpSimple(a, b)]

SortSimple(ents) == StableSort(ents, CmpSimpleOn(ents))

\* Variant of the keep test that also rejects a span touching the last kept one
KeepSimpleStrict(current, last) == current.start > last.end

KeepSimple(current, last) == current.start >= last.end

RECURSIVE simpleScan(_, _, _)
simpleScan(sorted, i, result) ==
    IF i > Len(sorted) THEN result
    ELSE IF KeepSimple(sorted[i], result[Len(result)])
         THEN simpleScan(sorted, i + 1, Append(result, sorted[i]))
         ELSE simpleScan(sorted, i + 1, result)

resolveConflictsSimple(ents) ==
    IF Len(ents) <= 1 THEN ents
    ELSE LET sorted == SortSimple(ents)
         IN simpleScan(sorted, 2, <<sorted[1]>>)

\* ---------------------------------------------------------------------------
\* Arrays by reference: what the resolvers do to the array the caller passed.
\* A reference says which array object it is: the caller's array or an array
\* created during the call.
\* ---------------------------------------------------------------------------
ArgRef == "argument"

\* [] filled by push, or an array literal
NewArray == "new"

\* Variant of the spread copy that hands back the array it was given
SpreadAlias(a) == a

\* [...a]: a new array holding the same elements
Spread(a) == NewArray

\* a.sort(c) sorts the array a itself and returns it
SortRef(a) == a

\* The array each resolver returns and the arrays it sorts on the way.
\* groupBy pushes the spans into arrays of its own and afterMerge is built by
\* push; mergeOverlapping and removeConflicting sort spread copies of those.
resolveConflictsRefs(ents) ==
    IF Len(ents) <= 1
    THEN [returned |-> Spread(ArgRef), sorted |-> {}]
    ELSE [returned |-> IF Len(afterMergeOf(ents)) <= 1 THEN Spread(NewArray)
                       ELSE NewArray,
          sorted |-> {SortRef(Spread(NewArray))}]

resolveConflictsSimpleRefs(ents) ==
    IF Len(ents) <= 1
    THEN [returned |-> Spread(ArgRef), sorted |-> {}]
    ELSE [returned |-> NewArray, sorted |-> {SortRef(Spread(ArgRef))}]

\* The caller's array once the call has returned: put in the order of the
\* sort if the call sorted that very array
ArgAfter(ents, refs, sortedItems) ==
    IF ArgRef \in refs.sorted THEN sortedItems ELSE ents

\* ===========================================================================
\* Routing decision
\* ===========================================================================
SecretsPrefix == "Secrets detected (route_local): "
PiiPrefix == "PII detected: "
NoPiiReason == "No PII detected"

\* An absent optional argument (undefined)
NoSecretsResult == [given |-> FALSE, detected |-> FALSE, matches |-> <<>>]
NoSecretsAction == "undefined"

SecretsActions == {"block", "redact", "route_local"}

PIIDetectionResults ==
    [hasPII : BOOLEAN,
     newEntities : SeqsUpTo([entity_type : EntityTypes], MaxNewEntities)]

SecretsDetectionResults ==
    [given : {TRUE}, detected : BOOLEAN,
     matches : SeqsUpTo([type : SecretTypes], MaxMatches)]

RoutingConfigs == [default : Providers, on_pii_detected : Providers]

\* Variant of decideRoute that tests the PII branch before the secrets branch
decideRoutePiiFirst(pii, rt, secrets, action) ==
    IF pii.hasPII
    THEN [provider |-> rt.on_pii_detected,
          reason |-> [prefix |-> PiiPrefix,
                      list |-> Distinct([i \in 1..Len(pii.newEntities) |->
                                           pii.newEntities[i].entity_type])]]
    ELSE IF secrets.given /\ secrets.detected /\ action = "route_local"
    THEN [provider |-> "local",
          reason |-> [prefix |-> SecretsPrefix,
                      list |-> [i \in 1..Len(secrets.matches) |-> secrets.matches[i].type]]]
    ELSE [provider |-> rt.default,
          reason |-> [prefix |-> NoPiiReason, list |-> <<>>]]

\* Variant of decideRoute that routes locally on any detected secret unless blocked
decideRouteAnyAction(pii, rt, secrets, action) ==
    IF secrets.given /\ secrets.detected /\ action # "block"
    THEN [provider |-> "local",
          reason |-> [prefix |-> SecretsPrefix,
                      list |-> [i \in 1..Len(secrets.matches) |-> secrets.matches[i].type]]]
    ELSE IF pii.hasPII
    THEN [provider |-> rt.on_pii_detected,
          reason |-> [prefix |-> PiiPrefix,
                      list |-> Distinct([i \in 1..Len(pii.newEntities) |->
                                           pii.newEntities[i].entity_type])]]
    ELSE [provider |-> rt.default,
          reason |-> [prefix |-> NoPiiReason, list |-> <<>>]]

\* Variant of decideRoute that lists the entity types without the Set
decideRouteNoSet(pii, rt, secrets, action) ==
    IF secrets.given /\ secrets.detected /\ action = "route_local"
    THEN [provider |-> "local",
          reason |-> [prefix |-> SecretsPrefix,
                      list |-> [i \in 1..Len(secrets.matches) |-> secrets.matches[i].type]]]
    ELSE IF pii.hasPII
    THEN [provider |-> rt.on_pii_detected,
          reason |-> [prefix |-> PiiPrefix,
                      list |-> [i \in 1..Len(pii.newEntities) |->
                                  pii.newEntities[i].entity_type]]]
    ELSE [provider |-> rt.default,
          reason |-> [prefix |-> NoPiiReason, list |-> <<>>]]

\* Variant of decideRoute whose last branch returns the PII provider
decideRouteNoDefault(pii, rt, secrets, action) ==
    IF secrets.given /\ secrets.detected /\ action = "route_local"
    THEN [provider |-> "local",
          reason |-> [prefix |-> SecretsPrefix,
                      list |-> [i \in 1..Len(secrets.matches) |-> secrets.matches[i].type]]]
    ELSE IF pii.hasPII
    THEN [provider |-> rt.on_pii_detected,
          reason |-> [prefix |-> PiiPrefix,
                      list |-> Distinct([i \in 1..Len(pii.newEntities) |->
                                           pii.newEntities[i].entity_type])]]
    ELSE [provider |-> rt.on_pii_detected,
          reason |-> [prefix |-> NoPiiReason, list |-> <<>>]]

\* A reason string `${prefix}${list.join(", ")}` is kept as its two parts.
decideRoute(pii, rt, secrets, action) ==
    IF secrets.given /\ secrets.detected /\ action = "route_local"
    THEN [provider |-> "local",
          reason |-> [prefix |-> SecretsPrefix,
                      list |-> [i \in 1..Len(secrets.matches) |-> secrets.matches[i].type]]]
    ELSE IF pii.hasPII
    THEN [provider |-> rt.on_pii_detected,
          reason |-> [prefix |-> PiiPrefix,
                      list |-> Distinct([i \in 1..Len(pii.newEntities) |->
                                           pii.newEntities[i].entity_type])]]
    ELSE [provider |-> rt.default,
          reason |-> [prefix |-> NoPiiReason, list |-> <<>>]]

NoDecision == [provider |-> "none", reason |-> [prefix |-> "", list |-> <<>>]]

\* ===========================================================================
\* Unmasking stream: wire format
\* ===========================================================================
\* The byte stream is a sequence of units: the data prefix, the JSON text
\* around delta.content, single content characters and the line feed.
DataPrefix == "data: "
NL == "\n"
JsonOpen == "{choices:[{delta:{content:"
JsonClose == "}}]}"
FlushOpen == "{id:flush,choices:[{delta:{content:"
DoneSentinel == "[DONE]"
BadJson == "{not json"
CommentText == ": keep-alive"

\* Characters of the masked text; "<" opens a placeholder token.
ContentChars == {"<", "p", "s"}

PiiToken == <<"<", "p">>
PiiOriginal == <<"A">>
SecretToken == <<"<", "s">>
SecretOriginal == <<"K">>
TokenGrammar == {PiiToken, SecretToken}

DataLine(content) == <<DataPrefix, JsonOpen>> \o content \o <<JsonClose>>
DoneLine == <<DataPrefix, DoneSentinel>>
BadLine == <<DataPrefix, BadJson>>
CommentLine == <<CommentText>>
Framed(line) == line \o <<NL, NL>>

SSELines ==
    {DataLine(c) : c \in SeqsUpTo(ContentChars, MaxContent)}
        \cup {DoneLine, BadLine, CommentLine}

RECURSIVE Flatten(_)
Flatten(ss) == IF ss = <<>> THEN <<>> ELSE Head(ss) \o Flatten(Tail(ss))

SourceStreams ==
    {Flatten([i \in 1..Len(ls) |-> Framed(ls[i])]) : ls \in SeqsUpTo(SSELines, MaxLines)}

\* chunk.split("\n")
RECURSIVE SplitLines(_, _)
SplitLines(chunk, line) ==
    IF chunk = <<>> THEN <<line>>
    ELSE IF Head(chunk) = NL THEN <<line>> \o SplitLines(Tail(chunk), <<>>)
    ELSE SplitLines(Tail(chunk), Append(line, Head(chunk)))

\* JSON.parse succeeds on a whole envelope and throws on anything else
ParsesAsJson(data) ==
    /\ Len(data) >= 2
    /\ data[1] = JsonOpen
    /\ data[Len(data)] = JsonClose
    /\ \A i \in 2..Len(data) - 1 : data[i] \in ContentChars

\* parsed.choices?.[0]?.delta?.content || ""
DeltaContent(data) == SubSeq(data, 2, Len(data) - 1)

\* ===========================================================================
\* Masking and redaction context (interface of ./masking and ../secrets/redact)
\* ===========================================================================
IsPrefixAt(text, i, token) ==
    /\ i + Len(token) - 1 <= Len(text)
    /\ SubSeq(text, i, i + Len(token) - 1) = token

RECURSIVE ReplaceAll(_, _, _, _)
ReplaceAll(text, i, token, original) ==
    IF i > Len(text) THEN <<>>
    ELSE IF IsPrefixAt(text, i, token)
         THEN original \o ReplaceAll(text, i + Len(token), token, original)
         ELSE <<text[i]>> \o ReplaceAll(text, i + 1, token, original)

ProperPrefixes == {SubSeq(t, 1, k) : t \in TokenGrammar, k \in 1..1}

\* Length of the longest suffix of text that is a proper prefix of a token
HoldLen(text) ==
    LET cand == {k \in 1..Len(text) :
                    SubSeq(text, Len(text) - k + 1, Len(text)) \in ProperPrefixes}
    IN IF cand = {} THEN 0 ELSE CHOOSE k \in cand : \A m \in cand : m <= k

StreamChunk(buffer, newText, token, original) ==
    LET combined == buffer \o newText
        keep == Len(combined) - HoldLen(combined)
    IN [output |-> ReplaceAll(SubSeq(combined, 1, keep), 1, token, original),
        remainingBuffer |-> SubSeq(combined, keep + 1, Len(combined))]

unmaskStreamChunk(buffer, newText) == StreamChunk(buffer, newText, PiiToken, PiiOriginal)
flushStreamBuffer(buffer) == ReplaceAll(buffer, 1, PiiToken, PiiOriginal)
unredactStreamChunk(buffer, newText) ==
    StreamChunk(buffer, newText, SecretToken, SecretOriginal)
flushRedactionBuffer(buffer) == ReplaceAll(buffer, 1, SecretToken, SecretOriginal)

\* ===========================================================================
\* createUnmaskingStream: processing of one chunk
\* ===========================================================================
\* ReadableStreamDefaultControllerCanCloseOrEnqueue
CanEnqueue == outState = "readable" /\ ~closeRequested

\* st = [pii, sec, out, threw]: the two buffers, the chunks enqueued while
\* processing, and whether controller.enqueue threw.
Enqueue(st, bytes) ==
    IF CanEnqueue THEN [st EXCEPT !.out = Append(@, bytes)]
    ELSE [st EXCEPT !.threw = TRUE]

\* Variant of the content branch that does not store the remaining buffers
ContentEventNoCarry(st, content) ==
    LET afterPii == IF havePii THEN unmaskStreamChunk(st.pii, content)
                    ELSE [output |-> content, remainingBuffer |-> st.pii]
        afterSec == IF haveSecrets /\ afterPii.output # <<>>
                    THEN unredactStreamChunk(st.sec, afterPii.output)
                    ELSE [output |-> afterPii.output, remainingBuffer |-> st.sec]
    IN IF afterSec.output # <<>>
       THEN Enqueue(st, DataLine(afterSec.output) \o <<NL, NL>>)
       ELSE st

ContentEvent(st, content) ==
    LET afterPii == IF havePii THEN unmaskStreamChunk(st.pii, content)
                    ELSE [output |-> content, remainingBuffer |-> st.pii]
        afterSec == IF haveSecrets /\ afterPii.output # <<>>
                    THEN unredactStreamChunk(st.sec, afterPii.output)
                    ELSE [output |-> afterPii.output, remainingBuffer |-> st.sec]
        st2 == [st EXCEPT !.pii = afterPii.remainingBuffer,
                          !.sec = afterSec.remainingBuffer]
    IN IF afterSec.output # <<>>
       THEN Enqueue(st2, DataLine(afterSec.output) \o <<NL, NL>>)
       ELSE st2

ProcessLine(st, line) ==
    IF line # <<>> /\ line[1] = DataPrefix
    THEN LET data == Tail(line) IN
         IF data = <<DoneSentinel>>
         THEN Enqueue(st, <<DataPrefix, DoneSentinel, NL, NL>>)
         ELSE IF ParsesAsJson(data)
         THEN IF DeltaContent(data) # <<>>
              THEN ContentEvent(st, DeltaContent(data))
              ELSE Enqueue(st, <<DataPrefix>> \o data \o <<NL, NL>>)
         ELSE Enqueue(st, line \o <<NL>>)
    ELSE IF line # <<>>
    THEN Enqueue(st, line \o <<NL>>)
    ELSE st

RECURSIVE ProcessLines(_, _, _)
ProcessLines(st, lines, i) ==
    IF i > Len(lines) \/ st.threw THEN st
    ELSE ProcessLines(ProcessLine(st, lines[i]), lines, i + 1)

ProcessChunk(chunk) ==
    ProcessLines([pii |-> piiBuffer, sec |-> secretsBuffer, out |-> <<>>, threw |-> FALSE],
                 SplitLines(chunk, <<>>), 1)

FlushEnvelope(flushed) == <<DataPrefix, FlushOpen>> \o flushed \o <<JsonClose, NL, NL>>

Flushed ==
    (IF piiBuffer # <<>> /\ havePii THEN flushStreamBuffer(piiBuffer) ELSE piiBuffer)
        \o (IF secretsBuffer # <<>> /\ haveSecrets THEN flushRedactionBuffer(secretsBuffer)
            ELSE secretsBuffer)

\* ===========================================================================
\* Specification of the stream
\* ===========================================================================
StreamIdle ==
    /\ sent = <<>> /\ pos = 0 /\ splits = 0
    /\ havePii = FALSE /\ haveSecrets = FALSE
    /\ piiBuffer = <<>> /\ secretsBuffer = <<>>
    /\ pc = "idle" /\ readerLocked = FALSE /\ failed = FALSE
    /\ outState = "readable" /\ closeRequested = FALSE /\ storedError = "none"
    /\ queue = <<>> /\ emitted = <<>> /\ cancelled = FALSE

\* ===========================================================================
\* Specification of the resolver: build an input, resolve it, resolve again
\* ===========================================================================
ResolveIdle ==
    /\ entities = <<>> /\ afterResolve = <<>> /\ afterResolve2 = <<>>
    /\ afterSimple = <<>> /\ rpc = "idle"
    /\ argAfter = [resolve |-> <<>>, simple |-> <<>>]
    /\ aliased = [resolve |-> FALSE, simple |-> FALSE]

RouteIdle ==
    /\ piiResult = [hasPII |-> FALSE, newEntities |-> <<>>]
    /\ routing = [default |-> "upstream", on_pii_detected |-> "upstream"]
    /\ secretsResult = NoSecretsResult /\ secretsResult2 = NoSecretsResult
    /\ secretsAction = NoSecretsAction
    /\ decision = NoDecision /\ decision2 = NoDecision /\ decisionPii = NoDecision
    /\ dpc = "idle"

InitResolve ==
    /\ entities \in SeqsUpTo(EntityWithScore, MaxEntities)
    /\ afterResolve = <<>> /\ afterResolve2 = <<>> /\ afterSimple = <<>>
    /\ argAfter = [resolve |-> entities, simple |-> entities]
    /\ aliased = [resolve |-> FALSE, simple |-> FALSE]
    /\ rpc = "input"
    /\ RouteIdle /\ StreamIdle

\* One call of each exported resolver on the same input, and a second call
\* of resolveConflicts on the output of the first
CallResolvers ==
    /\ rpc = "input"
    /\ afterResolve' = resolveConflicts(entities)
    /\ afterResolve2' = resolveConflicts(afterResolve')
    /\ afterSimple' = resolveConflictsSimple(entities)
    /\ argAfter' = [resolve |-> ArgAfter(entities, resolveConflictsRefs(entities),
                                         StableSort(entities, CmpConflictOn(entities))),
                    simple |-> ArgAfter(entities, resolveConflictsSimpleRefs(entities),
                                        SortSimple(entities))]
    /\ aliased' = [resolve |-> resolveConflictsRefs(entities).returned = ArgRef,
                   simple |-> resolveConflictsSimpleRefs(entities).returned = ArgRef]
    /\ rpc' = "resolved"
    /\ UNCHANGED <<entities, routeVars, streamVars>>

NextResolve == CallResolvers

SpecResolve == InitResolve /\ [][NextResolve]_vars

\* The resolver on spans of three entity types over a shorter text: a span of
\* one type can then contain two coinciding spans of the other two types.
MoreEntityTypes == EntityTypes \cup {"EMAIL_ADDRESS"}
ShortOffsets == 0..2

EntityWithScoreOfTypes ==
    {e \in [start : ShortOffsets, end : ShortOffsets, score : Scores,
            entity_type : MoreEntityTypes] : e.start < e.end}

InitResolveTypes ==
    /\ entities \in SeqsUpTo(EntityWithScoreOfTypes, MaxEntities)
    /\ afterResolve = <<>> /\ afterResolve2 = <<>> /\ afterSimple = <<>>
    /\ argAfter = [resolve |-> entities, simple |-> entities]
    /\ aliased = [resolve |-> FALSE, simple |-> FALSE]
    /\ rpc = "input"
    /\ RouteIdle /\ StreamIdle

SpecResolveTypes == InitResolveTypes /\ [][NextResolve]_vars

\* ===========================================================================
\* Specification of the routing decision
\* ===========================================================================
InitRoute ==
    /\ piiResult \in PIIDetectionResults
    /\ routing \in RoutingConfigs
    /\ secretsResult \in SecretsDetectionResults \cup {NoSecretsResult}
    /\ secretsResult2 \in SecretsDetectionResults \cup {NoSecretsResult}
    /\ secretsAction \in SecretsActions \cup {NoSecretsAction}
    /\ decision = NoDecision /\ decision2 = NoDecision /\ decisionPii = NoDecision
    /\ dpc = "input"
    /\ ResolveIdle /\ StreamIdle

CallDecideRoute ==
    /\ dpc = "input"
    /\ decision' = decideRoute(piiResult, routing, secretsResult, secretsAction)
    /\ decision2' = decideRoute(piiResult, routing, secretsResult2, secretsAction)
    /\ decisionPii' = decideRoute(piiResult, routing, NoSecretsResult, NoSecretsAction)
    /\ dpc' = "decided"
    /\ UNCHANGED <<piiResult, routing, secretsResult, secretsResult2, secretsAction,
                   resolveVars, streamVars>>

NextRoute == CallDecideRoute

SpecRoute == InitRoute /\ [][NextRoute]_vars

\* State after createUnmaskingStream returned and start() took the reader
Init ==
    /\ sent \in SourceStreams
    /\ pos = 0 /\ splits = 0
    /\ havePii \in BOOLEAN /\ haveSecrets \in BOOLEAN
    /\ piiBuffer = <<>> /\ secretsBuffer = <<>>
    /\ pc = "reading" /\ readerLocked = TRUE /\ failed = FALSE
    /\ outState = "readable" /\ closeRequested = FALSE /\ storedError = "none"
    /\ queue = <<>> /\ emitted = <<>> /\ cancelled = FALSE
    /\ ResolveIdle /\ RouteIdle

\* reader.read() delivers the next k bytes; the chunk is processed to the end
\* (or to the first enqueue that throws) before the next read.
ReadBytes(k) ==
    /\ pc = "reading"
    /\ pos + k <= Len(sent)
    /\ LET st == ProcessChunk(SubSeq(sent, pos + 1, pos + k))
       IN /\ piiBuffer' = st.pii
          /\ secretsBuffer' = st.sec
          /\ IF st.threw
             THEN \* catch: controller.error is a no-op on a stream that is
                  \* not readable; finally: reader.releaseLock()
                  /\ pc' = "exitThrow"
                  /\ readerLocked' = FALSE
                  /\ UNCHANGED <<emitted, queue>>
             ELSE /\ emitted' = emitted \o st.out
                  /\ queue' = queue \o st.out
                  /\ UNCHANGED <<pc, readerLocked>>
    /\ pos' = pos + k
    /\ UNCHANGED <<sent, havePii, haveSecrets, failed, outState, closeRequested,
                   storedError, cancelled, resolveVars, routeVars>>

\* A chunk that ends at the end of a line
ReadChunk(k) ==
    /\ pos + k <= Len(sent)
    /\ sent[pos + k] = NL
    /\ ReadBytes(k)
    /\ UNCHANGED splits

\* A chunk that ends in the middle of a line
ReadPartialChunk(k) ==
    /\ pos + k <= Len(sent)
    /\ sent[pos + k] # NL
    /\ splits < MaxSplits
    /\ splits' = splits + 1
    /\ ReadBytes(k)

\* Variant of ReadDone that closes the output without flushing the buffers
ReadDoneNoFlush ==
    /\ pc = "reading"
    /\ pos = Len(sent)
    /\ IF CanEnqueue
       THEN /\ closeRequested' = TRUE
            /\ outState' = IF queue = <<>> THEN "closed" ELSE "readable"
            /\ pc' = "exitClose"
            /\ UNCHANGED <<emitted, queue>>
       ELSE /\ pc' = "exitThrow"
            /\ UNCHANGED <<emitted, queue, closeRequested, outState>>
    /\ readerLocked' = FALSE
    /\ UNCHANGED <<sent, pos, splits, havePii, haveSecrets, piiBuffer, secretsBuffer,
                   failed, storedError, cancelled, resolveVars, routeVars>>

\* Variant of ReadDone that flushes and leaves the loop without closing
ReadDoneNoClose ==
    /\ pc = "reading"
    /\ pos = Len(sent)
    /\ IF CanEnqueue
       THEN LET final == IF Flushed # <<>> THEN <<FlushEnvelope(Flushed)>> ELSE <<>>
            IN /\ emitted' = emitted \o final
               /\ queue' = queue \o final
               /\ pc' = "exitClose"
               /\ UNCHANGED <<closeRequested, outState>>
       ELSE /\ pc' = "exitThrow"
            /\ UNCHANGED <<emitted, queue, closeRequested, outState>>
    /\ readerLocked' = FALSE
    /\ UNCHANGED <<sent, pos, splits, havePii, haveSecrets, piiBuffer, secretsBuffer,
                   failed, storedError, cancelled, resolveVars, routeVars>>

\* reader.read() reports done: flush, close
ReadDone ==
    /\ pc = "reading"
    /\ pos = Len(sent)
    /\ IF CanEnqueue
       THEN LET final == IF Flushed # <<>> THEN <<FlushEnvelope(Flushed)>> ELSE <<>>
            IN /\ emitted' = emitted \o final
               /\ queue' = queue \o final
               /\ closeRequested' = TRUE
               /\ outState' = IF queue \o final = <<>> THEN "closed" ELSE "readable"
               /\ pc' = "exitClose"
       ELSE \* enqueue or close throws a TypeError, caught, error is a no-op
            /\ pc' = "exitThrow"
            /\ UNCHANGED <<emitted, queue, closeRequested, outState>>
    /\ readerLocked' = FALSE
    /\ UNCHANGED <<sent, pos, splits, havePii, haveSecrets, piiBuffer, secretsBuffer,
                   failed, storedError, cancelled, resolveVars, routeVars>>

\* Variant of ReadFail that flushes the buffers before reporting the error
ReadFailFlushing ==
    /\ pc = "reading"
    /\ failed' = TRUE
    /\ emitted' = emitted \o (IF CanEnqueue /\ Flushed # <<>>
                              THEN <<FlushEnvelope(Flushed)>> ELSE <<>>)
    /\ IF outState = "readable"
       THEN /\ outState' = "errored"
            /\ storedError' = "source read error"
            /\ queue' = <<>>
       ELSE UNCHANGED <<outState, storedError, queue>>
    /\ pc' = "exitError"
    /\ readerLocked' = FALSE
    /\ UNCHANGED <<sent, pos, splits, havePii, haveSecrets, piiBuffer, secretsBuffer,
                   closeRequested, cancelled, resolveVars, routeVars>>

\* reader.read() rejects: catch calls controller.error, finally releases the lock
ReadFail ==
    /\ pc = "reading"
    /\ failed' = TRUE
    /\ IF outState = "readable"
       THEN /\ outState' = "errored"
            /\ storedError' = "source read error"
            /\ queue' = <<>>
       ELSE UNCHANGED <<outState, storedError, queue>>
    /\ pc' = "exitError"
    /\ readerLocked' = FALSE
    /\ UNCHANGED <<sent, pos, splits, havePii, haveSecrets, piiBuffer, secretsBuffer,
                   closeRequested, emitted, cancelled, resolveVars, routeVars>>

\* The consumer takes the next chunk of the output stream
Consume ==
    /\ outState = "readable"
    /\ queue # <<>>
    /\ queue' = Tail(queue)
    /\ outState' = IF closeRequested /\ Tail(queue) = <<>> THEN "closed" ELSE "readable"
    /\ UNCHANGED <<sent, pos, splits, havePii, haveSecrets, piiBuffer, secretsBuffer, pc,
                   readerLocked, failed, closeRequested, storedError, emitted, cancelled,
                   resolveVars, routeVars>>

\* The consumer cancels the output stream; the underlying source object has
\* no cancel callback, so nothing reaches the source reader.
Cancel ==
    /\ outState = "readable"
    /\ cancelled' = TRUE
    /\ outState' = "closed"
    /\ queue' = <<>>
    /\ UNCHANGED <<sent, pos, splits, havePii, haveSecrets, piiBuffer, secretsBuffer, pc,
                   readerLocked, failed, closeRequested, storedError, emitted,
                   resolveVars, routeVars>>

MaxChunk == (MaxContent + 5) * MaxLines

\* The source delivers whole lines in every chunk
Next ==
    \/ \E k \in 1..MaxChunk : ReadChunk(k)
    \/ ReadDone
    \/ ReadFail
    \/ Consume
    \/ Cancel

Spec == Init /\ [][Next]_vars

\* The source may also cut a chunk anywhere inside a line
NextBytes ==
    \/ \E k \in 1..MaxChunk : ReadChunk(k)
    \/ \E k \in 1..MaxChunk : ReadPartialChunk(k)
    \/ ReadDone
    \/ ReadFail
    \/ Consume
    \/ Cancel

SpecBytes == Init /\ [][NextBytes]_vars

\* The stream under fair scheduling: a read of a source that has nothing more
\* to deliver settles (done or rejected), and the consumer goes on reading
\* while chunks are waiting.  The upstream sends content events, some of
\* them a partial placeholder, and [DONE] lines.
LiveLines == {DataLine(<<"<">>), DataLine(<<"p">>), DoneLine}

LiveStreams ==
    {Flatten([i \in 1..Len(ls) |-> Framed(ls[i])]) : ls \in SeqsUpTo(LiveLines, MaxLines)}

InitLive == Init /\ sent \in LiveStreams

Fairness == WF_vars(ReadDone \/ ReadFail) /\ WF_vars(Consume)

SpecLive == InitLive /\ [][Next]_vars /\ Fairness

\* ===========================================================================
\* Properties of the conflict resolver
\* ===========================================================================
Range(s) == {s[i] : i \in 1..Len(s)}

StrictlyContained(a, b) ==
    isContainedIn(a, b) /\ (a.start # b.start \/ a.end # b.end)

\* C5: no span in the output of resolveConflicts is strictly contained in
\* another span of the output, whatever the types and scores.
C5_ContainmentEliminated ==
    rpc # "input" =>
        \A i, j \in 1..Len(afterResolve) :
            i # j => ~StrictlyContained(afterResolve[i], afterResolve[j])

\* C6: resolving the output of resolveConflicts again yields the same set of
\* spans (start, end, score, entity_type).
C6_Idempotent ==
    rpc = "resolved" => Range(afterResolve2) = Range(afterResolve)

\* C6 witness: a second resolution has run on an output of two or more spans
\* that the first resolution had to shrink.
C6_Witness ==
    /\ rpc = "resolved"
    /\ Len(afterResolve) >= 2
    /\ Len(afterResolve) < Len(entities)

SpanLen(e) == e.end - e.start

\* The indices of `sorted` a greedy left-to-right scan keeps: the first, and
\* every later one that starts at or after the end of the last kept before it.
IsGreedyKeep(sorted, K) ==
    \A i \in 1..Len(sorted) :
        i \in K <=>
            \/ i = 1
            \/ LET before == {j \in K : j < i}
                   lastKept == CHOOSE j \in before : \A k \in before : k <= j
               IN before # {} /\ sorted[i].start >= sorted[lastKept].end

RECURSIVE Restrict(_, _, _)
Restrict(s, K, i) ==
    IF i > Len(s) THEN <<>>
    ELSE (IF i \in K THEN <<s[i]>> ELSE <<>>) \o Restrict(s, K, i + 1)

\* C9: resolveConflictsSimple walks the spans in (start ascending, length
\* descending) order and keeps a span exactly when its start >= the end of
\* the last kept span; so the output is pairwise non-overlapping, every output
\* span is an input span (nothing is merged), and a touching span is kept.
C9_SimpleStrictness ==
    (rpc # "input" /\ Len(entities) >= 1) =>
        LET sorted == SortSimple(entities) IN
        /\ \A i, j \in 1..Len(sorted) :
              i < j => \/ sorted[i].start < sorted[j].start
                       \/ /\ sorted[i].start = sorted[j].start
                          /\ SpanLen(sorted[i]) >= SpanLen(sorted[j])
        /\ \A e \in Range(entities) :
              Cardinality({i \in 1..Len(sorted) : sorted[i] = e})
                = Cardinality({i \in 1..Len(entities) : entities[i] = e})
        /\ \E K \in SUBSET (1..Len(sorted)) :
              IsGreedyKeep(sorted, K) /\ afterSimple = Restrict(sorted, K, 1)
        /\ \A i, j \in 1..Len(afterSimple) :
              i # j => ~overlaps(afterSimple[i], afterSimple[j])
        /\ Range(afterSimple) \subseteq Range(entities)

\* C9 witness: one input span partially overlapping a kept span was dropped
\* and a span touching the previous kept span was kept.
C9_Witness ==
    /\ rpc # "input"
    /\ \E i \in 1..Len(afterSimple) - 1 :
          afterSimple[i + 1].start = afterSimple[i].end
    /\ \E e \in Range(entities), k \in Range(afterSimple) :
          /\ e \notin Range(afterSimple)
          /\ overlaps(e, k) /\ ~isContainedIn(e, k) /\ ~isContainedIn(k, e)

SameSpan(a, b) == a.start = b.start /\ a.end = b.end

\* Phase 2 runs on inputs of two or more spans
PhaseTwoRan == rpc = "resolved" /\ Len(entities) >= 2

\* C11 as stated: of two spans entering phase 2 with identical (start, end)
\* the higher-score one is in the output and the lower-score one is not, and
\* the output never holds two spans with identical (start, end).
C11_SameSpanTieBreak ==
    PhaseTwoRan =>
        LET am == afterMergeOf(entities) IN
        /\ \A i, j \in 1..Len(am) :
              (SameSpan(am[i], am[j]) /\ am[i].score > am[j].score) =>
                  /\ am[i] \in Range(afterResolve)
                  /\ am[j] \notin Range(afterResolve)
        /\ \A i, j \in 1..Len(afterResolve) :
              i # j => ~SameSpan(afterResolve[i], afterResolve[j])

\* A span kept by phase 2 that starts before e and reaches at least to its end
CoveredFromLeft(e) ==
    \E k \in Range(afterResolve) : k.start < e.start /\ k.end >= e.end

\* C11 amended: of the spans entering phase 2 with one identical (start, end)
\* at most one is in the output, it has the highest score among them, and one
\* of them is in the output exactly when no kept span that starts earlier
\* contains them; so the lower-score span of a pair is always dropped.
C11_TieBreakUnlessContained ==
    PhaseTwoRan =>
        LET am == afterMergeOf(entities) IN
        /\ \A i, j \in 1..Len(am) :
              (SameSpan(am[i], am[j]) /\ am[i].score > am[j].score) =>
                  am[j] \notin Range(afterResolve)
        /\ \A i \in 1..Len(am) :
              (\E j \in 1..Len(am) : SameSpan(am[i], am[j]) /\ am[j] \in Range(afterResolve))
                  <=> ~CoveredFromLeft(am[i])
        /\ \A i, j \in 1..Len(afterResolve) :
              i # j => ~SameSpan(afterResolve[i], afterResolve[j])
        /\ Range(afterResolve) \subseteq Range(am)

\* C11 witness: two spans of different types and scores coincide, the
\* higher-score one is the only one of them in the output, next to another span.
C11_Witness ==
    /\ PhaseTwoRan
    /\ Len(afterResolve) >= 2
    /\ \E a, b \in Range(afterMergeOf(entities)) :
          /\ SameSpan(a, b) /\ a.score > b.score
          /\ a \in Range(afterResolve) /\ b \notin Range(afterResolve)

\* The indices of ents linked to an index of S by a chain of overlapping spans
RECURSIVE OverlapClosure(_, _)
OverlapClosure(ents, S) ==
    LET N == S \cup {j \in 1..Len(ents) : \E i \in S : overlaps(ents[i], ents[j])}
    IN IF N = S THEN S ELSE OverlapClosure(ents, N)

\* The maximal groups of transitively overlapping spans, as index sets
OverlapGroups(ents) == {OverlapClosure(ents, {i}) : i \in 1..Len(ents)}

SetMin(S) == CHOOSE x \in S : \A y \in S : x <= y
SetMax(S) == CHOOSE x \in S : \A y \in S : x >= y

GroupSpan(ents, G) ==
    [start |-> SetMin({ents[i].start : i \in G}),
     end |-> SetMax({ents[i].end : i \in G}),
     score |-> SetMax({ents[i].score : i \in G}),
     entity_type |-> ents[CHOOSE i \in G : TRUE].entity_type]

AllSameType(ents) == \A i, j \in 1..Len(ents) : ents[i].entity_type = ents[j].entity_type

\* C12: for an input whose spans all have one entity_type the output of
\* resolveConflicts is exactly one span per maximal group of transitively
\* overlapping input spans, with the group's minimum start, maximum end and
\* maximum score; and no two output spans of one entity_type overlap.
C12_SameTypeMerge ==
    rpc = "resolved" =>
        /\ AllSameType(entities) =>
              /\ Range(afterResolve)
                    = {GroupSpan(entities, G) : G \in OverlapGroups(entities)}
              /\ Len(afterResolve) = Cardinality(OverlapGroups(entities))
        /\ \A i, j \in 1..Len(afterResolve) :
              (i # j /\ afterResolve[i].entity_type = afterResolve[j].entity_type)
                  => ~overlaps(afterResolve[i], afterResolve[j])

\* C12 witness: three spans of one type in an order other than by start and
\* with different scores, the outer two linked only through the middle one,
\* merged into a single span.
C12_Witness ==
    /\ rpc = "resolved"
    /\ Len(entities) = 3 /\ AllSameType(entities)
    /\ entities[1].start > entities[2].start
    /\ entities[1].score # entities[2].score
    /\ \E i, j \in 1..3 : ~overlaps(entities[i], entities[j])
    /\ Len(afterResolve) = 1

\* C15: resolveConflicts and resolveConflictsSimple leave the caller's array
\* as it was (same elements in the same order), return an array that is not
\* the caller's array, and return the same elements for an input of at most
\* one span.
C15_Purity ==
    rpc = "resolved" =>
        /\ argAfter.resolve = entities /\ argAfter.simple = entities
        /\ ~aliased.resolve /\ ~aliased.simple
        /\ Len(entities) <= 1 => (afterResolve = entities /\ afterSimple = entities)

\* C15 witness: both resolvers ran on an input that neither of their sorts
\* leaves in place and that the scored resolver had to merge.
C15_Witness ==
    /\ rpc = "resolved"
    /\ Len(entities) >= 2
    /\ SortSimple(entities) # entities
    /\ StableSort(entities, CmpStartOn(entities)) # entities
    /\ Len(afterResolve) < Len(entities)

\* The interval of a lies inside the interval of b (or is the same interval)
Covers(b, a) == b.start <= a.start /\ a.end <= b.end

\* C19: every span of the input of resolveConflicts lies inside the interval
\* of some span of the output, so no flagged offset becomes unflagged.
C19_CoverageKept ==
    rpc = "resolved" =>
        \A i \in 1..Len(entities) :
            \E k \in 1..Len(afterResolve) : Covers(afterResolve[k], entities[i])

\* C19 witness: phase 1 merged two spans into a span that is not in the input
\* and phase 2 dropped a span that only spans of another type cover.
C19_Witness ==
    /\ rpc = "resolved"
    /\ \E k \in Range(afterResolve) : k \notin Range(entities)
    /\ \E e \in Range(entities) :
          \A k \in Range(afterResolve) :
              Covers(k, e) => k.entity_type # e.entity_type

\* ===========================================================================
\* Properties of the routing decision
\* ===========================================================================
MatchTypes(secrets) == [i \in 1..Len(secrets.matches) |-> secrets.matches[i].type]

\* C7: secrets detected with action route_local always gives provider local
\* and a reason naming the secret types in match order, never the PII, for
\* every PII result and routing configuration.
C7_SecretsPrecedence ==
    (dpc = "decided" /\ secretsResult.given /\ secretsResult.detected
        /\ secretsAction = "route_local") =>
        /\ decision.provider = "local"
        /\ decision.reason.prefix = SecretsPrefix
        /\ decision.reason.list = MatchTypes(secretsResult)
        /\ Range(decision.reason.list) \cap EntityTypes = {}

\* C7 witness: the spec's example, secrets and PII both detected with
\* on_pii_detected = upstream.
C7_Witness ==
    /\ dpc = "decided"
    /\ secretsResult.given /\ secretsResult.detected
    /\ secretsResult.matches # <<>>
    /\ secretsAction = "route_local"
    /\ piiResult.hasPII /\ piiResult.newEntities # <<>>
    /\ routing.on_pii_detected = "upstream"

\* C8: with action block, redact or absent, the decision does not depend on
\* the secrets result: it equals decideRoute(pii, routing) for any two
\* secrets results.
C8_SecretsExcluded ==
    (dpc = "decided" /\ secretsAction \in {"block", "redact", NoSecretsAction}) =>
        /\ decision = decisionPii
        /\ decision2 = decisionPii

\* C8 witness: action redact, one secrets result with a detection and one
\* without, and a routing configuration where routing on secrets would differ.
C8_Witness ==
    /\ dpc = "decided"
    /\ secretsAction = "redact"
    /\ secretsResult.given /\ secretsResult.detected /\ secretsResult.matches # <<>>
    /\ secretsResult2.given /\ ~secretsResult2.detected
    /\ decisionPii.provider = "upstream"

\* The condition of the first branch of decideRoute
RouteLocalApplies ==
    secretsResult.given /\ secretsResult.detected /\ secretsAction = "route_local"

\* C13: when the route_local secrets rule does not apply, decideRoute returns
\* provider routing.on_pii_detected with a "PII detected: " reason if
\* piiResult.hasPII, and otherwise provider routing.default with the reason
\* exactly "No PII detected"; every input gets one of the three outcomes.
C13_PiiAndDefaultBranches ==
    dpc = "decided" =>
        /\ ~RouteLocalApplies =>
              IF piiResult.hasPII
              THEN /\ decision.provider = routing.on_pii_detected
                   /\ decision.reason.prefix = PiiPrefix
              ELSE /\ decision.provider = routing.default
                   /\ decision.reason = [prefix |-> NoPiiReason, list |-> <<>>]
        /\ decision.provider \in Providers
        /\ decision.reason.prefix \in {SecretsPrefix, PiiPrefix, NoPiiReason}
        /\ RouteLocalApplies <=> decision.reason.prefix = SecretsPrefix

\* C13 witness: the default branch taken although entities are listed and a
\* secret was detected (action redact), with the two providers different.
C13_Witness ==
    /\ dpc = "decided"
    /\ ~piiResult.hasPII /\ piiResult.newEntities # <<>>
    /\ secretsResult.given /\ secretsResult.detected /\ secretsAction = "redact"
    /\ routing.default = "local" /\ routing.on_pii_detected = "upstream"
    /\ decision.provider = "local"

NewEntityTypes == [i \in 1..Len(piiResult.newEntities) |->
                      piiResult.newEntities[i].entity_type]

\* Index of the first occurrence of x in s
FirstIndex(s, x) == CHOOSE i \in 1..Len(s) : s[i] = x /\ \A j \in 1..(i - 1) : s[j] # x

\* C16: on the PII branch the reason lists every entity_type that occurs in
\* piiResult.newEntities, each exactly once, in the order of their first
\* occurrences, however often a type occurs.
C16_ReasonDeduplicated ==
    (dpc = "decided" /\ ~RouteLocalApplies /\ piiResult.hasPII) =>
        LET list == decision.reason.list IN
        /\ decision.reason.prefix = PiiPrefix
        /\ Range(list) = Range(NewEntityTypes)
        /\ \A i, j \in 1..Len(list) : i # j => list[i] # list[j]
        /\ \A i, j \in 1..Len(list) :
              i < j => FirstIndex(NewEntityTypes, list[i]) < FirstIndex(NewEntityTypes, list[j])

\* C16 witness: a type occurs again after another type was seen, and the
\* reason lists the two types once each.
C16_Witness ==
    /\ dpc = "decided" /\ ~RouteLocalApplies /\ piiResult.hasPII
    /\ Len(NewEntityTypes) = 3
    /\ NewEntityTypes[1] = NewEntityTypes[3]
    /\ NewEntityTypes[1] # NewEntityTypes[2]
    /\ Len(decision.reason.list) = 2

\* ===========================================================================
\* Properties of the unmasking stream
\* ===========================================================================
IsEnvelopeChunk(chunk) ==
    /\ Len(chunk) >= 5
    /\ chunk[1] = DataPrefix
    /\ chunk[2] \in {JsonOpen, FlushOpen}
    /\ SubSeq(chunk, Len(chunk) - 2, Len(chunk)) = <<JsonClose, NL, NL>>

ChunkContent(chunk) ==
    IF IsEnvelopeChunk(chunk) THEN SubSeq(chunk, 3, Len(chunk) - 3) ELSE <<>>

\* Concatenation of the delta.content values of all emitted envelopes
EmittedContent == Flatten([i \in 1..Len(emitted) |-> ChunkContent(emitted[i])])

LineContent(line) ==
    IF line # <<>> /\ line[1] = DataPrefix /\ ParsesAsJson(Tail(line))
    THEN DeltaContent(Tail(line)) ELSE <<>>

\* The masked text the upstream sends: delta.content of its events, in order
UpstreamContent ==
    LET lines == SplitLines(sent, <<>>)
    IN Flatten([i \in 1..Len(lines) |-> LineContent(lines[i])])

\* The text with every placeholder of a configured context restored
UnmaskedText ==
    LET t1 == IF havePii THEN ReplaceAll(UpstreamContent, 1, PiiToken, PiiOriginal)
              ELSE UpstreamContent
    IN IF haveSecrets THEN ReplaceAll(t1, 1, SecretToken, SecretOriginal) ELSE t1

\* C1: for every split of the SSE byte stream into chunks, once the stream
\* has ended and the output is closed, the concatenation of all emitted
\* delta.content values (flush envelope included) is the unmasked text.
C1_StreamRoundTrip ==
    pc = "exitClose" => EmittedContent = UnmaskedText

FlushEnvelopes == {i \in 1..Len(emitted) : emitted[i][2] = FlushOpen}

ExpectedFlush ==
    (IF havePii THEN ReplaceAll(piiBuffer, 1, PiiToken, PiiOriginal) ELSE piiBuffer)
        \o (IF haveSecrets THEN ReplaceAll(secretsBuffer, 1, SecretToken, SecretOriginal)
            ELSE secretsBuffer)

\* C2: when the source ends normally with a non-empty carry-over buffer, one
\* synthetic envelope carrying the PII flush followed by the secrets flush is
\* emitted as the last chunk and the output is closed; with both buffers
\* empty no synthetic envelope is emitted and the output is closed.  No
\* synthetic envelope exists on any other path.
C2_EndOfStreamFlush ==
    /\ pc = "exitClose" =>
          /\ closeRequested
          /\ IF piiBuffer # <<>> \/ secretsBuffer # <<>>
             THEN /\ Cardinality(FlushEnvelopes) = 1
                  /\ emitted[Len(emitted)] = FlushEnvelope(ExpectedFlush)
             ELSE FlushEnvelopes = {}
    /\ pc # "exitClose" => (FlushEnvelopes = {} /\ ~closeRequested)
    /\ (pc = "reading" /\ pos = Len(sent) /\ ~cancelled) => CanEnqueue

\* C2 witness: the stream ended with a partial token in the PII buffer after
\* earlier output, and the flush envelope was emitted.
C2_Witness ==
    /\ pc = "exitClose"
    /\ piiBuffer # <<>>
    /\ Len(emitted) >= 2
    /\ FlushEnvelopes # {}

\* C3: a chunk holding exactly a [DONE] line or a malformed data line with its
\* line terminators is forwarded with identical bytes and does not put the
\* output into the error state.
C3_PassThroughFidelity ==
    [][(/\ pc = "reading" /\ pos' > pos /\ CanEnqueue
        /\ SubSeq(sent, pos + 1, pos') \in {Framed(DoneLine), Framed(BadLine)})
        => /\ Flatten(SubSeq(emitted', Len(emitted) + 1, Len(emitted')))
                = SubSeq(sent, pos + 1, pos')
           /\ outState' # "errored"]_vars

\* C4: after a failed read of the source the output is errored with that
\* error (unless the consumer had cancelled it), no synthetic flush envelope
\* is emitted, the output is never closed by the rewriter, and the chunks
\* emitted before the failure stay as they were.
C4_SourceFailure ==
    /\ [](failed =>
            /\ pc = "exitError"
            /\ ~readerLocked
            /\ ~closeRequested
            /\ FlushEnvelopes = {}
            /\ outState = "closed" => cancelled
            /\ ~cancelled => (outState = "errored" /\ storedError = "source read error"))
    /\ [][failed' => emitted' = emitted]_vars

\* C4 witness: the source failed while a partial token was buffered, after
\* some chunks had been emitted, and the output is errored.
C4_Witness ==
    /\ failed
    /\ ~cancelled
    /\ piiBuffer # <<>>
    /\ emitted # <<>>
    /\ outState = "errored"

\* C10: once the consumer has cancelled the output, a chunk that arrives from
\* the source is never followed by another read of the source.
C10_CancelStopsReading ==
    [][(cancelled /\ pos' > pos) => pc' # "reading"]_vars

\* delta.content of the events in the bytes read so far, in order
ReceivedContent ==
    LET lines == SplitLines(SubSeq(sent, 1, pos), <<>>)
    IN Flatten([i \in 1..Len(lines) |-> LineContent(lines[i])])

\* text with every complete placeholder of a configured context restored
Unmasked(text) ==
    LET t1 == IF havePii THEN ReplaceAll(text, 1, PiiToken, PiiOriginal) ELSE text
    IN IF haveSecrets THEN ReplaceAll(t1, 1, SecretToken, SecretOriginal) ELSE t1

C14_Backpressure ==
    [][pos' > pos => queue = <<>>]_vars

\* C18: a chunk made only of lines that do not begin with the data prefix
\* (comment lines, blank lines) is emitted with identical bytes, line
\* terminators included, and leaves both carry-over buffers as they were.
C18_NonDataLines ==
    [][(/\ pc = "reading" /\ pos' > pos /\ CanEnqueue
        /\ DataPrefix \notin Range(SubSeq(sent, pos + 1, pos')))
        => /\ Flatten(SubSeq(emitted', Len(emitted) + 1, Len(emitted')))
                = SubSeq(sent, pos + 1, pos')
           /\ piiBuffer' = piiBuffer
           /\ secretsBuffer' = secretsBuffer]_vars

Terminal == outState \in {"closed", "errored"}

====
